---- MODULE Spec2Model ----
(***************************************************************************)
(* Magnet: the command handlers of CommandHandler (generate, build, go,    *)
(* clean, pull, remove, switch, config) and the CmakeEmitter they drive,   *)
(* as a state machine over the project on disk.                            *)
(*                                                                         *)
(* A behaviour is one process invocation: it starts on some project on     *)
(* disk (Init), runs one command and ends (pc = "done").  What a sequence  *)
(* of invocations does is covered by starting from every disk state such   *)
(* a sequence can leave behind.  A handler is one action, up to the point  *)
(* where it calls HandleGenerateCommand; the generation it cascades into   *)
(* is a chain of steps, one per generated file and one for cmake.          *)
(***************************************************************************)
EXTENDS Integers, Sequences, FiniteSets, TLC

VARIABLES
    rootLevel,     \* Application::IsRootLevel(): .magnet exists in the cwd
    project,       \* the loaded descriptor (props.project)
    configuration, \* persisted defaultConfiguration of .magnet/config.yaml
    registry,      \* persisted .magnet/dependencies.yaml, in document order
    ioFault,       \* the disk refuses writes to .magnet/dependencies.yaml
    dirs,          \* directories that exist under the cwd, as component lists
    sourceTree,    \* entries of <project>/Source in iteration order
    files,         \* contents of the three generated files (NoFile: absent)
    pc,            \* "idle" before the command, "done" after it, else the step
    cmd,           \* the running (or latest) command and its arguments
    ext,           \* std::system calls of this command, with their outcome
    opened,        \* generated files opened for writing by this command
    log,           \* MG_LOG lines of this command
    emitter        \* a CmakeEmitter on its own: two lambdas and its m_Stream

vars == <<rootLevel, project, configuration, registry, ioFault, dirs,
          sourceTree, files, pc, cmd, ext, opened, log, emitter>>

disk == <<rootLevel, project, configuration, registry, ioFault, dirs,
          sourceTree, files>>

(***************************************************************************)
(* Bounds.                                                                 *)
(***************************************************************************)
\* longest registry an install may still extend
MaxDeps == 3

\* most emitter calls in the body of a lambda
MaxBlock == 2

(***************************************************************************)
(* Small helpers over sequences.                                           *)
(***************************************************************************)
Range(s) == {s[i] : i \in 1..Len(s)}

NoDup(s) == \A i, j \in 1..Len(s) : s[i] = s[j] => i = j

RECURSIVE Concat(_)
Concat(ss) == IF ss = <<>> THEN <<>> ELSE Head(ss) \o Concat(Tail(ss))

RECURSIVE Str(_)
\* std::string built from a sequence of characters
Str(cs) == IF cs = <<>> THEN "" ELSE Head(cs) \o Str(Tail(cs))

RECURSIVE Repeat(_, _)
Repeat(x, n) == IF n <= 0 THEN <<>> ELSE <<x>> \o Repeat(x, n - 1)

(***************************************************************************)
(* CmakeEmitter: every operator is the sequence of pieces the method       *)
(* streams into m_Stream, in order.  A lambda argument is the sequence of  *)
(* pieces its body emits when called.                                      *)
(***************************************************************************)
End == "\n"

MG_VERSION == "1.0"

Add_Newline(amount) == Repeat(End, amount)

Add_Header ==
    <<"# Generated by Magnet v", MG_VERSION>> \o Add_Newline(1)
    \o <<"# Do not edit this file since any changes will be overwritten next time the project files are regenerated.">>
    \o Add_Newline(2)

Add_Literal(literal) == <<literal>>

Add_Indentation(amount) == Repeat("\t", amount)

Add_Comment(comment) == <<"# ", comment, End>>

Add_If(condition, lambda) ==
    <<"if(", condition, ")", End>> \o lambda \o <<"endif()", End>>

\* mutant of Add_IfElse: the two lambdas are called in the other order
Add_IfElseSwapped(condition, ifTrue, ifFalse) ==
    <<"if(", condition, ")", End>> \o ifFalse \o <<"else()", End>>
    \o ifTrue \o <<"endif()", End>>

Add_IfElse(condition, ifTrue, ifFalse) ==
    <<"if(", condition, ")", End>> \o ifTrue \o <<"else()", End>>
    \o ifFalse \o <<"endif()", End>>

Add_CmakeMinimumRequired(version) ==
    <<"cmake_minimum_required(VERSION ", version, ")", End>>

Add_Project(target) == <<"project(", target, ")", End>>

Add_SetCmakeCxxStandard(value) ==
    <<"set(CMAKE_CXX_STANDARD ", ToString(value), ")", End>>

Add_SetCmakeArchiveOutputDirectory(value) ==
    <<"set(CMAKE_ARCHIVE_OUTPUT_DIRECTORY ", value, ")", End>>

Add_SetCmakeLibraryOutputDirectory(value) ==
    <<"set(CMAKE_LIBRARY_OUTPUT_DIRECTORY ", value, ")", End>>

Add_SetCmakeRuntimeOutputDirectory(value) ==
    <<"set(CMAKE_RUNTIME_OUTPUT_DIRECTORY ", value, ")", End>>

Add_SetTargetProperties(target, property, value) ==
    <<"set_target_properties(", target, " PROPERTIES ", property, " ", value, ")", End>>

Add_AddSubdirectory(source) == <<"add_subdirectory(", source, ")", End>>

Add_AddSubdirectories(sources) ==
    Concat([i \in 1..Len(sources) |-> Add_AddSubdirectory(sources[i])])

Add_TargetIncludeDirectories(target, mode, directory) ==
    <<"target_include_directories(", target, " ", mode, " ", directory, ")", End>>

Begin_TargetIncludeDirectories(target, mode) ==
    <<"target_include_directories(", target, " ", mode, End>>

End_TargetIncludeDirectories == <<")", End>>

\* the loop "for (x : xs) m_Stream << ' ' << x"
SpaceSeparated(xs) == Concat([i \in 1..Len(xs) |-> <<" ", xs[i]>>])

Add_TargetLinkLibraries(target, libraries) ==
    <<"target_link_libraries(", target>> \o SpaceSeparated(libraries)
    \o <<")", End>>

Add_AddExecutable(target, sources) ==
    <<"add_executable(", target>> \o SpaceSeparated(sources) \o <<")", End>>

\* mutant of Add_AddLibrary: the library kind is not streamed
Add_AddLibraryNoKind(target, type, sources) ==
    <<"add_library(", target>> \o SpaceSeparated(sources) \o <<")", End>>

Add_AddLibrary(target, type, sources) ==
    <<"add_library(", target, " ", type>> \o SpaceSeparated(sources)
    \o <<")", End>>

(***************************************************************************)
(* Paths.  A std::filesystem::path is its sequence of components; a        *)
(* std::string holding a path joins them by "/".                           *)
(***************************************************************************)
\* operator/ : an empty right-hand side appends an empty final component
PathJoin(p, component) == Append(p, component)

RECURSIVE PathString(_)
PathString(p) ==
    IF p = <<>> THEN ""
    ELSE IF Len(p) = 1 THEN p[1]
    ELSE p[1] \o "/" \o PathString(Tail(p))

\* the directory a path resolves to: empty components name the same entry
Resolve(p) == SelectSeq(p, LAMBDA c : c # "")

\* std::filesystem::exists on a directory path
Exists(ds, p) == Resolve(p) \in ds

DependenciesPath(projectName) == <<projectName, "Dependencies">>

SourcePath(projectName) == <<projectName, "Source">>

InstallPath(projectName, dependency) ==
    <<projectName, "Dependencies", dependency>>

(***************************************************************************)
(* Application and Project: the parts the handlers call.                   *)
(***************************************************************************)
ProjectTypes == {"Executable", "StaticLibrary", "DynamicLibrary"}

\* Project::GetTypeString(): the library kind as cmake spells it
GetTypeString(type) ==
    IF type = "StaticLibrary" THEN "STATIC"
    ELSE IF type = "DynamicLibrary" THEN "SHARED"
    ELSE "EXECUTABLE"

\* Application::GetDependencies(): the persisted document, in its order
GetDependencies(reg) == reg

\* Configuration::FromString: a case-sensitive match, Invalid otherwise
FromString(text) ==
    IF text \in {"Debug", "Release"} THEN text ELSE "Invalid"

IsValid(conf) == conf # "Invalid"

\* Application::SetDefaultConfiguration: stores what it is given
SetDefaultConfiguration(current, conf) == conf

\* CommandHandlerProps::GetArgument: "" past the end of nextArguments
GetArgument(args, index) ==
    IF index >= Len(args) THEN "" ELSE args[index + 1]

RequireProjectName(p) == p.name # ""

RequireProjectNameLog(p) ==
    IF p.name = "" THEN <<<<"Command failed due to unknown project name.">>>>
    ELSE <<>>

(***************************************************************************)
(* The generated files.                                                    *)
(***************************************************************************)
FileIds == {"root", "source", "deps"}

NoFile == [exists |-> FALSE, content |-> <<>>]

\* where each generated file is opened; <<>> is the working directory
FileDir(id, projectName) ==
    CASE id = "root" -> <<>>
      [] id = "source" -> SourcePath(projectName)
      [] id = "deps" -> DependenciesPath(projectName)

\* CmakeEmitter::CmakeEmitter: m_Stream.open(path) creates or truncates the
\* file when its directory exists and otherwise leaves a failed stream,
\* which drops everything written to it
\* mutant of EmitFile: the stream is opened for appending
EmitFileAppending(fs, ds, id, projectName, content) ==
    IF FileDir(id, projectName) = <<>> \/ Exists(ds, FileDir(id, projectName))
    THEN [fs EXCEPT ![id] = [exists |-> TRUE, content |-> @.content \o content]]
    ELSE fs

EmitFile(fs, ds, id, projectName, content) ==
    IF FileDir(id, projectName) = <<>> \/ Exists(ds, FileDir(id, projectName))
    THEN [fs EXCEPT ![id] = [exists |-> TRUE, content |-> content]]
    ELSE fs

FileOpens(ds, id, projectName) ==
    FileDir(id, projectName) = <<>> \/ Exists(ds, FileDir(id, projectName))

RootContent(p) ==
    Add_Header
    \o Add_CmakeMinimumRequired(p.cmakeVersion)
    \o Add_Project(p.name)
    \o Add_Newline(1)
    \o Add_SetCmakeCxxStandard(p.cppVersion)
    \o Add_SetCmakeArchiveOutputDirectory("${PROJECT_SOURCE_DIR}/${PROJECT_NAME}/Binaries")
    \o Add_SetCmakeLibraryOutputDirectory("${PROJECT_SOURCE_DIR}/${PROJECT_NAME}/Binaries")
    \o Add_SetCmakeRuntimeOutputDirectory("${PROJECT_SOURCE_DIR}/${PROJECT_NAME}/Binaries")
    \o Add_Newline(1)
    \o Add_AddSubdirectory("${PROJECT_NAME}/Source")
    \o Add_AddSubdirectory("${PROJECT_NAME}/Dependencies")
    \o Add_Newline(1)
    \o Add_TargetIncludeDirectories(p.name, "PUBLIC", "${PROJECT_SOURCE_DIR}/${PROJECT_NAME}/Source")
    \o Add_Newline(1)
    \o Add_If("MSVC",
              Add_Indentation(1)
              \o Add_Literal("set_property(DIRECTORY ${CMAKE_CURRENT_SOURCE_DIR} PROPERTY VS_STARTUP_PROJECT "
                             \o p.name \o ")")
              \o Add_Newline(1))

\* the recursive_directory_iterator loop: bare file names of the entries
\* whose extension is .cpp, .h or .hpp, in iteration order
DiscoverSources(tree) ==
    LET kept == SelectSeq(tree, LAMBDA e : e.ext \in {".cpp", ".h", ".hpp"})
    IN  [i \in 1..Len(kept) |-> kept[i].stem \o kept[i].ext]

SourceContent(p, tree, reg) ==
    LET sourceFiles == DiscoverSources(tree)
        dependencies == GetDependencies(reg)
    IN  Add_Header
        \o Add_CmakeMinimumRequired(p.cmakeVersion)
        \o Add_Project(p.name)
        \o Add_SetCmakeCxxStandard(p.cppVersion)
        \o (IF p.type = "Executable"
            THEN Add_AddExecutable(p.name, sourceFiles)
            ELSE Add_AddLibrary(p.name, GetTypeString(p.type), sourceFiles))
        \o Add_Newline(1)
        \o Add_Comment("Set rpath relative to app")
        \o Add_IfElse("NOT MSVC",
                      Add_SetTargetProperties(p.name, "LINK_FLAGS", "-Wl, -rpath, ./"),
                      Add_SetTargetProperties(p.name, "VS_DEBUGGER_WORKING_DIRECTORY",
                                              "${CMAKE_SOURCE_DIR}/${PROJECT_NAME}/Binaries/Debug"))
        \o Add_Newline(1)
        \o Add_Comment("Precompiled headers")
        \o Add_Comment("target_precompile_headers(${PROJECT_NAME} PUBLIC PCH.h)")
        \o Add_Newline(1)
        \o (IF dependencies # <<>>
            THEN Add_TargetLinkLibraries(p.name, dependencies)
            ELSE <<>>)

\* mutant of IncludeEntry: the include directory is not probed
IncludeEntryUnprobed(ds, projectName, package) ==
    LET packagePath == <<projectName, "Dependencies", package>>
    IN  IF ~Exists(ds, packagePath) THEN <<>>
        ELSE Add_Indentation(1)
             \o Add_Literal("\"")
             \o Add_Literal(package)
             \o Add_Literal("/include")
             \o Add_Literal("\"")
             \o Add_Newline(1)

\* one pass of the loop of GenerateDependencyCMakeFiles
IncludeEntry(ds, projectName, package) ==
    LET packagePath == <<projectName, "Dependencies", package>>
    IN  IF ~Exists(ds, packagePath) THEN <<>>
        ELSE Add_Indentation(1)
             \o Add_Literal("\"")
             \o Add_Literal(package)
             \o (IF Exists(ds, PathJoin(packagePath, "include"))
                 THEN Add_Literal("/include") ELSE <<>>)
             \o Add_Literal("\"")
             \o Add_Newline(1)

DepsContent(p, ds, reg) ==
    LET dependencies == GetDependencies(reg)
    IN  Add_Header
        \o Add_CmakeMinimumRequired(p.cmakeVersion)
        \o Add_Project(p.name)
        \o Add_Newline(1)
        \o (IF dependencies # <<>>
            THEN Add_AddSubdirectories(dependencies)
                 \o Add_Newline(1)
                 \o Begin_TargetIncludeDirectories(p.name, "PUBLIC")
                 \o Concat([i \in 1..Len(dependencies) |->
                              IncludeEntry(ds, p.name, dependencies[i])])
                 \o End_TargetIncludeDirectories
            ELSE <<>>)

(***************************************************************************)
(* The gate of HandleGenerateCommand.                                      *)
(***************************************************************************)
\* mutant of MissingDependencies: the loop breaks at the first missing one
MissingDependenciesFirst(ds, projectName, reg) ==
    LET paths == [i \in 1..Len(reg) |-> PathJoin(DependenciesPath(projectName), reg[i])]
        missing == SelectSeq(paths, LAMBDA path : ~Exists(ds, path))
    IN  IF Exists(ds, DependenciesPath(projectName)) /\ missing # <<>>
        THEN <<missing[1]>> ELSE <<>>

\* the paths logged as "Missing dependency: ", in registry order; the loop
\* runs only when <project>/Dependencies exists
MissingDependencies(ds, projectName, reg) ==
    IF Exists(ds, DependenciesPath(projectName))
    THEN LET dependencies == GetDependencies(reg)
             paths == [i \in 1..Len(dependencies) |->
                          PathJoin(DependenciesPath(projectName), dependencies[i])]
         IN  SelectSeq(paths, LAMBDA path : ~Exists(ds, path))
    ELSE <<>>

MissingLog(missing) ==
    [i \in 1..Len(missing) |-> <<"Missing dependency: ", PathString(missing[i])>>]

(***************************************************************************)
(* Command-line arguments.  The argument of pull is kept as its sequence   *)
(* of characters, because ExtractRepositoryName works on characters.       *)
(***************************************************************************)
Chars_list == <<"-", "-", "l", "i", "s", "t">>

Chars_help == <<"-", "-", "h", "e", "l", "p">>

Chars_https == <<"h", "t", "t", "p", "s", ":", "/", "/">>

Chars_github == Chars_https \o <<"g", "i", "t", "h", "u", "b", ".", "c", "o", "m", "/">>

\* the arguments tried for pull: none, the two options, a short GitHub
\* name, full URLs with and without a .git suffix
PullArguments ==
    { <<>>, Chars_list, Chars_help,
      <<"u", "/", "a">>,
      Chars_https \o <<"h", ".", "o", "/", "b", ".", "g", "i", "t">>,
      Chars_https \o <<"h", ".", "o", "/", "c">> }

DependencyNames == {"a", "b", "c"}

BranchNames == {"", "dev"}

ConfigArguments == {"", "Debug", "Release", "debug"}

\* std::string::find_last_of: the last position of c, 0 when there is none
LastIndexOf(cs, c) ==
    LET hits == {i \in 1..Len(cs) : cs[i] = c}
    IN  IF hits = {} THEN 0 ELSE CHOOSE i \in hits : \A j \in hits : j <= i

\* nextArgument.find("https://") != 0
HasHttpsPrefix(cs) ==
    /\ Len(cs) >= Len(Chars_https)
    /\ SubSeq(cs, 1, Len(Chars_https)) = Chars_https

\* "If the user didn't provide a full URL, we'll assume it's a GitHub repository."
FullUrl(cs) == IF HasHttpsPrefix(cs) THEN cs ELSE Chars_github \o cs

ExtractRepositoryName(url) ==
    LET afterSlash == SubSeq(url, LastIndexOf(url, "/") + 1, Len(url))
        dot == LastIndexOf(afterSlash, ".")
    IN  Str(IF dot = 0 THEN afterSlash ELSE SubSeq(afterSlash, 1, dot - 1))

(***************************************************************************)
(* The dependency document.                                                *)
(***************************************************************************)
\* mutant of EraseAll: std::find + erase, only the first occurrence goes
EraseFirst(dependencies, dependency) ==
    LET hits == {i \in 1..Len(dependencies) : dependencies[i] = dependency}
        first == CHOOSE i \in hits : \A j \in hits : i <= j
    IN  IF hits = {} THEN dependencies
        ELSE SubSeq(dependencies, 1, first - 1)
             \o SubSeq(dependencies, first + 1, Len(dependencies))

\* std::remove + erase: every element equal to dependency goes, the rest
\* keep their order
EraseAll(dependencies, dependency) ==
    SelectSeq(dependencies, LAMBDA d : d # dependency)

\* mutant of PushBack: the name is inserted at the front
PushFront(dependencies, name) == <<name>> \o dependencies

\* mutant of PushBack: the name is stored with the suffix of the URL
PushBackUnstripped(dependencies, name) == Append(dependencies, name \o ".git")

\* dependencies.push_back(name)
PushBack(dependencies, name) == Append(dependencies, name)

\* mutant of WriteDependencyFile: the document is never written
WriteDependencyFileSkipped(reg, dependencies, fault) == reg

\* mutant of WriteDependencyFile: an empty sequence is written
WriteDependencyFileEmptied(reg, dependencies, fault) ==
    IF fault THEN reg ELSE <<>>

\* WriteDependencyFile: the document on disk afterwards; a stream that
\* failed to open leaves it as it was
WriteDependencyFile(reg, dependencies, fault) ==
    IF fault THEN reg ELSE dependencies

WriteDependencyFileLog(fault) ==
    IF fault THEN <<<<"Failed to update dependencies.yaml file.">>>> ELSE <<>>

(***************************************************************************)
(* ExecuteCommand: one std::system call.  run is the record kept in ext;   *)
(* the message is logged when the status is not 0.                         *)
(***************************************************************************)
Run(command, ok) == [command |-> command, ok |-> ok]

ExecuteCommandLog(ok, errorMessage) ==
    IF ok THEN <<>> ELSE <<<<errorMessage>>>>

\* mutant of RunUntilFailure: the handler ignores a failed status and goes on
RunPastFailure(commands, succeed) ==
    [i \in 1..Len(commands) |-> Run(commands[i], i <= succeed)]

\* the calls a handler makes, given how many of its commands succeed: it
\* runs them in order and returns at the first that fails
RunUntilFailure(commands, succeed) ==
    [i \in 1..(IF succeed < Len(commands) THEN succeed + 1 ELSE Len(commands)) |->
        Run(commands[i], i <= succeed)]

(***************************************************************************)
(* What the external tools do to the directories when they exit 0.         *)
(***************************************************************************)
\* git submodule add <url> <path>: the checkout at path, with or without an
\* include directory of its own
AfterSubmoduleAdd(ds, projectName, name, withInclude) ==
    ds \cup {DependenciesPath(projectName), Resolve(InstallPath(projectName, name))}
       \cup (IF withInclude
             THEN {Resolve(PathJoin(InstallPath(projectName, name), "include"))}
             ELSE {})

\* git submodule deinit -f <path>: the working tree of the submodule is
\* emptied, its directory stays
AfterDeinit(ds, projectName, name) ==
    ds \ {PathJoin(InstallPath(projectName, name), "include")}

\* git rm -f <path>: the directory goes
AfterGitRm(ds, projectName, name) ==
    ds \ {InstallPath(projectName, name),
          PathJoin(InstallPath(projectName, name), "include")}

\* the directories after the first 'succeed' steps of remove
AfterRemoveSteps(ds, projectName, name, succeed) ==
    IF succeed = 0 THEN ds
    ELSE IF succeed = 1 THEN AfterDeinit(ds, projectName, name)
    ELSE AfterGitRm(AfterDeinit(ds, projectName, name), projectName, name)

\* git submodule update --init --recursive: checks out the submodules in
\* 'fetched'
AfterSubmoduleUpdate(ds, projectName, fetched) ==
    ds \cup (IF fetched = {} THEN {} ELSE {DependenciesPath(projectName)})
       \cup {InstallPath(projectName, n) : n \in fetched}

(***************************************************************************)
(* The projects a command may be started on.                               *)
(***************************************************************************)
\* a directory walk of <project>/Source: files, a subdirectory, a file that
\* is no source, and a file name that occurs in two directories
SourceTrees ==
    { << [dir |-> <<>>, stem |-> "main", ext |-> ".cpp"],
         [dir |-> <<>>, stem |-> "util", ext |-> ""],
         [dir |-> <<"util">>, stem |-> "io", ext |-> ".h"],
         [dir |-> <<"util">>, stem |-> "main", ext |-> ".cpp"],
         [dir |-> <<>>, stem |-> "notes", ext |-> ".txt"],
         [dir |-> <<>>, stem |-> "pch", ext |-> ".hpp"] >> }

Descriptors ==
    [name : {"", "P"}, type : ProjectTypes, cppVersion : {17},
     cmakeVersion : {"3.16"}]

\* the dependency documents a command may find
Registries == UNION {[1..n -> DependencyNames] : n \in 0..MaxDeps}

\* the directories of a project named P: Source, and either no
\* Dependencies directory or one holding some of the dependencies, the
\* first of them with an include directory or without
Layouts ==
    LET deps == DependenciesPath("P")
        include == <<"P", "Dependencies", "a", "include">>
        checkouts(present) == {deps} \cup {PathJoin(deps, n) : n \in present}
        withDeps ==
            UNION { IF "a" \in present
                    THEN {checkouts(present), checkouts(present) \cup {include}}
                    ELSE {checkouts(present)}
                    : present \in SUBSET DependencyNames }
    IN  { {SourcePath("P")} \cup l : l \in withDeps \cup { {} } }
        \cup { {deps} }

NoFiles == [id \in FileIds |-> NoFile]

\* the three generation steps run over the files fs
Generation(fs, p, tree, ds, reg) ==
    LET root == EmitFile(fs, ds, "root", p.name, RootContent(p))
        source == EmitFile(root, ds, "source", p.name, SourceContent(p, tree, reg))
    IN  EmitFile(source, ds, "deps", p.name, DepsContent(p, ds, reg))

\* what a generation left behind that ran before any dependency was declared
PriorGeneration(p, tree, ds) == Generation(NoFiles, p, tree, ds, <<>>)

\* the files an earlier command may have left: none, those of a generation
\* before any dependency was declared, or those of a generation that passed
\* the gate on the project as it is now
GeneratedBefore(atRoot, p, tree, ds, reg) ==
    IF atRoot /\ p.name # ""
    THEN {PriorGeneration(p, tree, ds)}
         \cup (IF MissingDependencies(ds, p.name, reg) = <<>>
               THEN {Generation(NoFiles, p, tree, ds, reg)} ELSE {})
    ELSE {}

\* no emitter besides the ones the generation steps construct and destroy
NoEmitter == [ifTrue |-> <<>>, ifFalse |-> <<>>, stream |-> <<>>, called |-> ""]

InitWith(faults) ==
    /\ rootLevel \in BOOLEAN
    /\ project \in Descriptors
    \* the descriptor is read from .magnet: without it the name is unknown
    /\ rootLevel = FALSE => project.name = ""
    /\ configuration \in {"Debug"}
    /\ registry \in Registries
    /\ ioFault \in faults
    /\ dirs \in Layouts
    /\ sourceTree \in SourceTrees
    /\ files \in {NoFiles} \cup GeneratedBefore(rootLevel, project, sourceTree,
                                               dirs, registry)
    /\ pc = "idle"
    /\ cmd = [name |-> "", args |-> <<>>]
    /\ ext = <<>>
    /\ opened = <<>>
    /\ log = <<>>
    /\ emitter = NoEmitter

Init == InitWith({FALSE})

InitIO == InitWith(BOOLEAN)

(***************************************************************************)
(* Starting a command: a fresh process, empty histories.                   *)
(***************************************************************************)
Start(name, args) ==
    /\ pc = "idle"
    /\ cmd' = [name |-> name, args |-> args]

(***************************************************************************)
(* HandleGenerateCommand, up to the gate.  log0, ext0 and opened0 are the  *)
(* histories when the handler is entered.                                  *)
(***************************************************************************)
\* mutant of GateOutcome: the handler does not ask IsRootLevel
GateOutcomeAnywhere(atRoot, p, missing) ==
    IF ~RequireProjectName(p) THEN "noName"
    ELSE IF missing # <<>> THEN "missing"
    ELSE "pass"

\* the early returns of HandleGenerateCommand, in the order it tries them
GateOutcome(atRoot, p, missing) ==
    IF ~atRoot THEN "notRoot"
    ELSE IF ~RequireProjectName(p) THEN "noName"
    ELSE IF missing # <<>> THEN "missing"
    ELSE "pass"

GenerateGate(log0) ==
    LET missing == MissingDependencies(dirs, project.name, registry)
        entered == Append(log0, <<"Generating project files...">>)
        outcome == GateOutcome(rootLevel, project, missing)
    IN  IF outcome = "notRoot"
        THEN /\ log' = Append(entered, <<"In order to generate, run this command at the root of your project, where .magnet can be found.">>)
             /\ pc' = "done"
        ELSE IF outcome = "noName"
        THEN /\ log' = entered \o RequireProjectNameLog(project)
             /\ pc' = "done"
        ELSE IF outcome = "missing"
        THEN /\ log' = entered \o MissingLog(missing)
                        \o <<<<"Generate failed due to missing dependencies. Run 'magnet pull' to install them.">>>>
             /\ pc' = "done"
        ELSE /\ log' = entered
             /\ pc' = "root"

\* magnet generate
HandleGenerateCommand ==
    /\ Start("generate", <<>>)
    /\ ext' = <<>>
    /\ opened' = <<>>
    /\ GenerateGate(<<>>)
    /\ UNCHANGED <<disk, emitter>>

\* HandleGenerateCommand(props) called at the end of pull, remove, switch
CascadedGenerate ==
    /\ pc = "generate"
    /\ GenerateGate(log)
    /\ UNCHANGED <<disk, cmd, ext, opened, emitter>>

\* mutant of WriteGenerated: the generator also saves the dependency
\* document, without the names that have no directory
WriteGeneratedAndSave(id, content, next) ==
    /\ files' = EmitFile(files, dirs, id, project.name, content)
    /\ opened' = IF FileOpens(dirs, id, project.name)
                 THEN Append(opened, id) ELSE opened
    /\ registry' = SelectSeq(registry,
                             LAMBDA n : Exists(dirs, InstallPath(project.name, n)))
    /\ log' = log
    /\ pc' = next
    /\ UNCHANGED <<emitter, rootLevel, project, configuration, ioFault, dirs,
                   sourceTree, cmd, ext>>

\* one of the three Generate...CMakeFile(s) calls
WriteGenerated(id, content, next) ==
    /\ IF RequireProjectName(project)
       THEN /\ files' = EmitFile(files, dirs, id, project.name, content)
            /\ opened' = IF FileOpens(dirs, id, project.name)
                         THEN Append(opened, id) ELSE opened
            /\ log' = log
       ELSE /\ log' = log \o RequireProjectNameLog(project)
            /\ UNCHANGED <<files, opened>>
    /\ pc' = next
    /\ UNCHANGED <<emitter, rootLevel, project, configuration, registry, ioFault, dirs,
                   sourceTree, cmd, ext>>

GenerateRootCMakeFile ==
    /\ pc = "root"
    /\ WriteGenerated("root", RootContent(project), "source")

\* recursive_directory_iterator throws when <project>/Source is missing;
\* nothing catches it and the process ends
GenerateCMakeFiles ==
    /\ pc = "source"
    /\ IF Exists(dirs, SourcePath(project.name))
       THEN WriteGenerated("source", SourceContent(project, sourceTree, registry), "deps")
       ELSE /\ pc' = "done"
            /\ log' = Append(log, <<"terminate: std::filesystem::filesystem_error">>)
            /\ UNCHANGED <<disk, cmd, ext, opened, emitter>>

GenerateDependencyCMakeFiles ==
    /\ pc = "deps"
    /\ WriteGenerated("deps", DepsContent(project, dirs, registry), "cmake")

GenerateCommand(projectName) ==
    "cmake -S . -B " \o projectName \o "/Build " \o "-G \"Unix Makefiles\""

\* the ExecuteCommand of HandleGenerateCommand and what follows it
RunCMake ==
    /\ pc = "cmake"
    /\ \E ok \in BOOLEAN :
        /\ ext' = Append(ext, Run(GenerateCommand(project.name), ok))
        /\ log' = log
                  \o ExecuteCommandLog(ok, "CMake failed to generate project files. See messages above for more information.")
                  \o (IF ok THEN <<<<"Successfully generated project files. Run 'magnet build' next.">>>>
                      ELSE <<>>)
    /\ pc' = "done"
    /\ UNCHANGED <<disk, cmd, opened, emitter>>

(***************************************************************************)
(* The handlers that cascade into nothing: config, build, go, clean.       *)
(***************************************************************************)
HandleConfigCommand ==
    \E text \in ConfigArguments :
        LET nextArgument == GetArgument(<<text>>, 0)
            parsed == FromString(nextArgument)
        IN  /\ Start("config", <<text>>)
            /\ IF nextArgument = ""
               THEN /\ log' = <<<<"Usage: magnet config <configuration>">>>>
                    /\ configuration' = configuration
               ELSE /\ configuration' = SetDefaultConfiguration(configuration, parsed)
                    /\ log' = IF ~IsValid(parsed)
                              THEN <<<<"Usage: magnet config [Debug/Release]">>>>
                              ELSE <<<<"Successfully changed default configuration to ", parsed, ".">>>>
            /\ pc' = "done"
            /\ ext' = <<>>
            /\ opened' = <<>>
            /\ UNCHANGED <<emitter, rootLevel, project, registry, ioFault, dirs, sourceTree, files>>

\* a handler that logs, requires the project name and runs one command
OneCommandHandler(name, entered, command, errorMessage, done) ==
    /\ Start(name, <<>>)
    /\ opened' = <<>>
    /\ pc' = "done"
    /\ IF ~RequireProjectName(project)
       THEN /\ log' = <<entered>> \o RequireProjectNameLog(project)
            /\ ext' = <<>>
       ELSE \E ok \in BOOLEAN :
            /\ ext' = <<Run(command, ok)>>
            /\ log' = <<entered>> \o ExecuteCommandLog(ok, errorMessage)
                      \o (IF ok THEN done ELSE <<>>)
    /\ UNCHANGED <<disk, emitter>>

HandleBuildCommand ==
    OneCommandHandler("build",
        <<"Building in ", configuration, " configuration...">>,
        "cmake --build " \o project.name \o "/Build --config " \o configuration,
        "CMake couldn't build the project. See messages above for more information. Have you tried generating your project files first? If not, run 'magnet generate'.",
        <<<<"Build successful. Run 'magnet go' to launch your app.">>>>)

HandleGoCommand ==
    OneCommandHandler("go",
        <<"Launching project...">>,
        "./" \o project.name \o "/Binaries/" \o configuration \o "/" \o project.name,
        "Failed to launch project. See messages above for more information.",
        <<>>)

\* removedItems is what the four remove_all calls add up to; the build
\* tree they delete is not part of the state
HandleCleanCommand ==
    /\ Start("clean", <<>>)
    /\ ext' = <<>>
    /\ opened' = <<>>
    /\ pc' = "done"
    /\ IF ~RequireProjectName(project)
       THEN log' = <<<<"Clean started...">>>> \o RequireProjectNameLog(project)
       ELSE \E removedItems \in 0..2 :
            log' = <<<<"Clean started...">>,
                     IF removedItems = 0
                     THEN <<"Looks like your project is already clean. Nice!">>
                     ELSE <<"Removed ", ToString(removedItems), " item",
                            IF removedItems > 1 THEN "s" ELSE "", ".">> >>
    /\ UNCHANGED <<disk, emitter>>

(***************************************************************************)
(* HandlePullCommand.                                                      *)
(***************************************************************************)
\* magnet pull
HandlePullAll ==
    /\ Start("pull", <<Str(<<>>)>>)
    /\ opened' = <<>>
    /\ \E ok \in BOOLEAN :
        /\ ext' = <<Run("git submodule update --init --recursive", ok)>>
        /\ log' = ExecuteCommandLog(ok, "Failed to install dependencies. See messages above for more information.")
                  \o (IF ok THEN <<<<"Successfully installed all dependencies.">>>> ELSE <<>>)
        /\ pc' = IF ok THEN "generate" ELSE "done"
        /\ \E fetched \in {{}, {n \in Range(registry) :
                                    ~Exists(dirs, InstallPath(project.name, n))}} :
            /\ ~(ok /\ project.name # "") => fetched = {}
            /\ dirs' = AfterSubmoduleUpdate(dirs, project.name, fetched)
    /\ UNCHANGED <<emitter, rootLevel, project, configuration, registry, ioFault,
                   sourceTree, files>>

\* HandlePullListCommand
PullListLog(reg) ==
    LET dependencies == GetDependencies(reg)
    IN  IF dependencies = <<>>
        THEN <<<<"No dependencies installed.">>>>
        ELSE <<<<"Here are all the installed dependencies:">>>>
             \o [i \in 1..Len(dependencies) |-> <<dependencies[i]>>]

\* magnet pull --list, magnet pull --help
HandlePullOption ==
    \E nextArgument \in {Chars_list, Chars_help} :
        /\ Start("pull", <<Str(nextArgument)>>)
        /\ ext' = <<>>
        /\ opened' = <<>>
        /\ pc' = "done"
        /\ log' = IF ~RequireProjectName(project)
                  THEN RequireProjectNameLog(project)
                  ELSE IF nextArgument = Chars_list
                  THEN PullListLog(registry)
                  ELSE <<<<"Usage: magnet pull <url>">>, <<"       magnet pull --list">>>>
        /\ UNCHANGED <<disk, emitter>>

\* the repositories that come with an include directory, or without
IncludeRepositories == {"a"}

\* magnet pull <url>
HandlePullOne ==
    \E argument \in PullArguments \ {<<>>, Chars_list, Chars_help} :
        LET nextArgument == FullUrl(argument)
            name == ExtractRepositoryName(nextArgument)
            installPath == InstallPath(project.name, name)
            command == "git submodule add " \o Str(nextArgument) \o " "
                       \o PathString(installPath)
            dependencies == PushBack(GetDependencies(registry), name)
        IN  /\ Start("pull", <<Str(argument)>>)
            /\ opened' = <<>>
            /\ IF ~RequireProjectName(project)
               THEN /\ log' = RequireProjectNameLog(project)
                    /\ ext' = <<>>
                    /\ pc' = "done"
                    /\ UNCHANGED <<registry, dirs>>
               ELSE \E ok \in BOOLEAN :
                    /\ ok => Len(registry) < MaxDeps
                    /\ ext' = <<Run(command, ok)>>
                    /\ IF ~ok
                       THEN /\ log' = ExecuteCommandLog(ok, "Failed to install dependency. See messages above for more information.")
                            /\ pc' = "done"
                            /\ UNCHANGED <<registry, dirs>>
                       ELSE /\ \E withInclude \in BOOLEAN :
                                /\ withInclude => name \in IncludeRepositories
                                /\ dirs' = AfterSubmoduleAdd(dirs, project.name, name, withInclude)
                            /\ registry' = WriteDependencyFile(registry, dependencies, ioFault)
                            /\ log' = WriteDependencyFileLog(ioFault)
                                      \o <<<<"Installed new dependency: ", name>>>>
                            /\ pc' = "generate"
            /\ UNCHANGED <<emitter, rootLevel, project, configuration, ioFault, sourceTree, files>>

(***************************************************************************)
(* HandleRemoveCommand and HandleSwitchCommand.                            *)
(***************************************************************************)
RemoveCommands(installPath) ==
    << "git submodule deinit -f " \o installPath,
       "git rm -f " \o installPath,
       "rm -rf .git/modules/" \o installPath >>

\* magnet remove <dependency>
HandleRemoveCommand ==
    \E dependency \in DependencyNames \cup {""} :
        LET installPath == PathString(InstallPath(project.name, dependency))
            commands == RemoveCommands(installPath)
            dependencies == EraseAll(GetDependencies(registry), dependency)
        IN  /\ Start("remove", <<dependency>>)
            /\ opened' = <<>>
            /\ IF dependency = "" \/ ~RequireProjectName(project)
               THEN /\ log' = IF dependency = ""
                              THEN <<<<"Usage: magnet remove <dependency>">>>>
                              ELSE RequireProjectNameLog(project)
                    /\ ext' = <<>>
                    /\ pc' = "done"
                    /\ UNCHANGED <<registry, dirs>>
               ELSE \E succeed \in 0..Len(commands) :
                    /\ ext' = RunUntilFailure(commands, succeed)
                    /\ dirs' = AfterRemoveSteps(dirs, project.name, dependency, succeed)
                    /\ IF succeed < Len(commands)
                       THEN /\ log' = <<<<"Failed to remove dependency. See messages above for more information.">>>>
                            /\ pc' = "done"
                            /\ UNCHANGED registry
                       ELSE /\ registry' = WriteDependencyFile(registry, dependencies, ioFault)
                            /\ log' = WriteDependencyFileLog(ioFault)
                                      \o <<<<"Removed dependency: ", dependency>>>>
                            /\ pc' = "generate"
            /\ UNCHANGED <<emitter, rootLevel, project, configuration, ioFault, sourceTree, files>>

SwitchCommands(installPath, branch) ==
    << "git -C " \o installPath \o " checkout " \o branch,
       "git add " \o installPath >>

\* mutant of HandleSwitchCommand: a successful switch saves the document
\* with the switched dependency declared last
HandleSwitchCommandSaving ==
    \E dependency \in DependencyNames, branch \in BranchNames \ {""} :
        LET installPath == PathString(InstallPath(project.name, dependency))
            commands == SwitchCommands(installPath, branch)
        IN  /\ Start("switch", <<dependency, branch>>)
            /\ RequireProjectName(project)
            /\ opened' = <<>>
            /\ ext' = RunUntilFailure(commands, Len(commands))
            /\ registry' = PushBack(EraseAll(GetDependencies(registry), dependency),
                                    dependency)
            /\ log' = <<<<"Switched ", dependency, " branch to: ", branch>>>>
            /\ pc' = "generate"
            /\ UNCHANGED <<rootLevel, project, configuration, ioFault, dirs,
                           sourceTree, files, emitter>>

\* magnet switch <dependency> <branch>
HandleSwitchCommand ==
    \E dependency \in DependencyNames \cup {""}, branch \in BranchNames :
        LET installPath == PathString(InstallPath(project.name, dependency))
            commands == SwitchCommands(installPath, branch)
        IN  /\ Start("switch", <<dependency, branch>>)
            /\ opened' = <<>>
            /\ IF dependency = "" \/ branch = "" \/ ~RequireProjectName(project)
               THEN /\ log' = IF dependency = "" \/ branch = ""
                              THEN <<<<"Usage: magnet switch <dependency> <branch>">>>>
                              ELSE RequireProjectNameLog(project)
                    /\ ext' = <<>>
                    /\ pc' = "done"
               ELSE \E succeed \in 0..Len(commands) :
                    /\ ext' = RunUntilFailure(commands, succeed)
                    /\ IF succeed < Len(commands)
                       THEN /\ log' = <<<<"Failed to switch dependency branch. See messages above for more information.">>>>
                            /\ pc' = "done"
                       ELSE /\ log' = <<<<"Switched ", dependency, " branch to: ", branch>>>>
                            /\ pc' = "generate"
            /\ UNCHANGED <<disk, emitter>>

(***************************************************************************)
(* The specifications.                                                     *)
(***************************************************************************)
Next ==
    \/ HandleConfigCommand
    \/ HandleGenerateCommand
    \/ CascadedGenerate
    \/ GenerateRootCMakeFile
    \/ GenerateCMakeFiles
    \/ GenerateDependencyCMakeFiles
    \/ RunCMake
    \/ HandleBuildCommand
    \/ HandleGoCommand
    \/ HandleCleanCommand
    \/ HandlePullAll
    \/ HandlePullOption
    \/ HandlePullOne
    \/ HandleRemoveCommand
    \/ HandleSwitchCommand

\* every write of the dependency document succeeds
Spec == Init /\ [][Next]_vars

\* the dependency document may be unwritable
SpecIO == InitIO /\ [][Next]_vars

(***************************************************************************)
(* A CmakeEmitter on its own.  A caller holds two lambdas, each a list of  *)
(* emitter calls (the body of the lambda, in the order it makes them), and *)
(* passes them to Add_IfElse.  The lambdas GenerateCMakeFiles passes are   *)
(* among them.                                                             *)
(***************************************************************************)
\* emitter calls a lambda body may make, one of them a nested conditional
BlockCalls ==
    { Add_SetTargetProperties("P", "LINK_FLAGS", "-Wl, -rpath, ./"),
      Add_SetTargetProperties("P", "VS_DEBUGGER_WORKING_DIRECTORY",
                              "${CMAKE_SOURCE_DIR}/${PROJECT_NAME}/Binaries/Debug"),
      Add_Comment("x"),
      Add_If("MSVC", Add_Newline(1)) }

Blocks == UNION {[1..n -> BlockCalls] : n \in 0..MaxBlock}

\* calling the lambda: its calls stream their pieces one after the other
Invoke(block) == Concat(block)

InitEmitter ==
    /\ rootLevel = TRUE
    /\ project = [name |-> "P", type |-> "Executable", cppVersion |-> 17,
                  cmakeVersion |-> "3.16"]
    /\ configuration = "Debug"
    /\ registry = <<>>
    /\ ioFault = FALSE
    /\ dirs = {SourcePath("P")}
    /\ sourceTree \in SourceTrees
    /\ files = NoFiles
    /\ pc = "idle"
    /\ cmd = [name |-> "", args |-> <<>>]
    /\ ext = <<>>
    /\ opened = <<>>
    /\ log = <<>>
    /\ emitter \in [ifTrue : Blocks, ifFalse : Blocks, stream : {<<>>},
                    called : {""}]

\* emitter.Add_IfElse("NOT MSVC", ifTrue, ifFalse)
CallAdd_IfElse ==
    /\ emitter.called = ""
    /\ emitter' = [emitter EXCEPT
                     !.stream = @ \o Add_IfElse("NOT MSVC",
                                                Invoke(emitter.ifTrue),
                                                Invoke(emitter.ifFalse)),
                     !.called = "Add_IfElse"]
    /\ UNCHANGED <<disk, pc, cmd, ext, opened, log>>

NextEmitter == CallAdd_IfElse

SpecEmitter == InitEmitter /\ [][NextEmitter]_vars

(***************************************************************************)
(* Vocabulary of the properties.                                           *)
(***************************************************************************)
Logged(entry) == \E i \in 1..Len(log) : log[i] = entry

GenerationEntered == Logged(<<"Generating project files...">>)

GateBlocked ==
    Logged(<<"Generate failed due to missing dependencies. Run 'magnet pull' to install them.">>)

GenerationSucceeded ==
    Logged(<<"Successfully generated project files. Run 'magnet build' next.">>)

\* the cmake generation command was run (and failed)
CMakeRan ==
    \E i \in 1..Len(ext) : ext[i].command = GenerateCommand(project.name)

CMakeFailed ==
    \E i \in 1..Len(ext) :
        ext[i].command = GenerateCommand(project.name) /\ ~ext[i].ok

\* declared in the registry, no directory under <project>/Dependencies
AbsentDeclared ==
    {n \in Range(registry) : ~Exists(dirs, InstallPath(project.name, n))}

\* the paths of the "Missing dependency: " lines
Reported ==
    {log[i][2] : i \in {j \in 1..Len(log) :
                          Len(log[j]) = 2 /\ log[j][1] = "Missing dependency: "}}

PastTheGate == pc \in {"root", "source", "deps", "cmake"}

\* the name each tried pull argument stands for
InstalledNameOf(argument) ==
    CASE argument = "u/a" -> "a"
      [] argument = "https://h.o/b.git" -> "b"
      [] argument = "https://h.o/c" -> "c"

PullOneStarted(c) ==
    c.name = "pull" /\ c.args[1] \in {"u/a", "https://h.o/b.git", "https://h.o/c"}

\* install-one ran git submodule add and it exited 0
PullOneSucceeded == PullOneStarted(cmd) /\ ext # <<>> /\ ext[1].ok

InstalledName == InstalledNameOf(cmd.args[1])

\* the names a target_link_libraries directive of the content lists
LinkedIn(content) ==
    {content[j] : j \in {k \in 3..Len(content) :
        /\ content[k - 1] = " "
        /\ \E i \in 1..(k - 2) :
            /\ content[i] = "target_link_libraries("
            /\ \A m \in i..k : content[m] # ")"}}

\* the k-th element of s that differs from d is s[KeptIndex(s, d, k)]
KeptIndex(s, d, k) ==
    CHOOSE i \in 1..Len(s) :
        s[i] # d /\ Cardinality({j \in 1..i : s[j] # d}) = k

(***************************************************************************)
(* C1.  Whenever generate runs while a declared dependency has no          *)
(* directory under <project>/Dependencies, be it that the Dependencies     *)
(* directory itself is missing, generation stops at the gate: no generated *)
(* file is opened and cmake is not run.                                    *)
(* Fails: without a Dependencies directory the gate checks nothing.        *)
(***************************************************************************)
C1_GateBlocksEveryAbsentDependency ==
    AbsentDeclared # {} => ~PastTheGate /\ opened = <<>> /\ ~CMakeRan

(***************************************************************************)
(* C2.  When generate aborts on missing dependencies, the paths reported   *)
(* as missing are exactly those of the declared names whose directory is   *)
(* absent.                                                                 *)
(***************************************************************************)
C2_ReportedExactlyAbsent ==
    (pc = "done" /\ GateBlocked) =>
        /\ AbsentDeclared # {}
        /\ Reported = {PathString(InstallPath(project.name, n)) : n \in AbsentDeclared}

C2_Witness ==
    /\ pc = "done" /\ GateBlocked
    /\ Range(registry) = {"a", "b"}
    /\ Exists(dirs, InstallPath("P", "a"))
    /\ ~Exists(dirs, InstallPath("P", "b"))
    /\ Reported = {"P/Dependencies/b"}

(***************************************************************************)
(* C3.  When an external step of install-all, install-one, remove or       *)
(* switch exits non-zero, the handler ends there: the failed step is the   *)
(* last one run and every one before it succeeded, the dependency          *)
(* document is as before the command, no generated file is touched and     *)
(* HandleGenerateCommand is not entered.                                   *)
(***************************************************************************)
C3_FailedStepEndsCommand ==
    [][ ( /\ pc = "idle"
          /\ cmd'.name \in {"pull", "remove", "switch"}
          /\ \E i \in 1..Len(ext') : ~ext'[i].ok )
        => ( /\ pc' = "done"
             /\ registry' = registry
             /\ ~ext'[Len(ext')].ok
             /\ \A i \in 1..(Len(ext') - 1) : ext'[i].ok
             /\ files' = files
             /\ opened' = <<>>
             /\ \A i \in 1..Len(log') : log'[i] # <<"Generating project files...">> )
      ]_vars

C3_Witness ==
    /\ pc = "done"
    /\ cmd.name = "remove"
    /\ Len(ext) = 2 /\ ext[1].ok /\ ~ext[2].ok
    /\ cmd.args[1] \in Range(registry)

(***************************************************************************)
(* C4.  After an install <url> whose git submodule add exited 0 the new    *)
(* name is in the dependency document from the moment the handler hands    *)
(* over to HandleGenerateCommand, which it always does; a regeneration     *)
(* that then succeeds has written the name into the link-libraries         *)
(* directive of the source-target file.                                    *)
(***************************************************************************)
C4_InstallCascades ==
    PullOneSucceeded =>
        /\ InstalledName \in Range(registry)
        /\ pc = "generate" \/ GenerationEntered
        /\ (pc = "done" /\ GenerationSucceeded) =>
              /\ opened = <<"root", "source", "deps">>
              /\ InstalledName \in LinkedIn(files["source"].content)

C4_Witness ==
    /\ PullOneSucceeded
    /\ pc = "done" /\ GenerationSucceeded
    /\ InstalledName = "b"
    /\ "b" \in LinkedIn(files["source"].content)

(***************************************************************************)
(* C5.  A dependency document without duplicates stays without            *)
(* duplicates under every command.                                         *)
(* Fails: install-one appends the name without looking for it.             *)
(***************************************************************************)
C5_RegistryStaysUnique ==
    [][NoDup(registry) => NoDup(registry')]_vars

(***************************************************************************)
(* C6.  A successful install-one of a name that is not yet declared        *)
(* leaves the dependency document equal to the one before it with the      *)
(* new name appended as its last element.                                  *)
(***************************************************************************)
C6_InstallAppends ==
    [][ ( /\ pc = "idle"
          /\ PullOneStarted(cmd')
          /\ ext' # <<>> /\ ext'[1].ok
          /\ InstalledNameOf(cmd'.args[1]) \notin Range(registry) )
        => ( /\ Len(registry') = Len(registry) + 1
             /\ SubSeq(registry', 1, Len(registry)) = registry
             /\ registry'[Len(registry')] = InstalledNameOf(cmd'.args[1]) )
      ]_vars

C6_Witness ==
    /\ PullOneSucceeded
    /\ cmd.args[1] = "u/a"
    /\ registry = <<"c", "b", "a">>

(***************************************************************************)
(* C7.  After a remove <d> whose three external steps all exited 0 the     *)
(* dependency document no longer holds d and holds every other entry in    *)
(* the order it had; when d was not declared the document is unchanged     *)
(* and the command goes on to the generation like any other remove.        *)
(***************************************************************************)
C7_RemoveErases ==
    [][ ( /\ pc = "idle"
          /\ cmd'.name = "remove"
          /\ Len(ext') = 3
          /\ \A i \in 1..3 : ext'[i].ok )
        => LET d == cmd'.args[1]
               kept == {i \in 1..Len(registry) : registry[i] # d}
           IN  /\ d \notin Range(registry')
               /\ Len(registry') = Cardinality(kept)
               /\ \A k \in 1..Len(registry') :
                     registry'[k] = registry[KeptIndex(registry, d, k)]
               /\ d \notin Range(registry) =>
                     /\ registry' = registry
                     /\ pc' = "generate"
                     /\ log' = <<<<"Removed dependency: ", d>>>>
      ]_vars

C7_Witness ==
    /\ cmd.name = "remove"
    /\ Len(ext) = 4 /\ \A i \in 1..4 : ext[i].ok
    /\ cmd.args[1] = "b"
    /\ registry = <<"a", "c">>
    /\ pc = "done" /\ GenerationSucceeded

(***************************************************************************)
(* C8.  When install-one has persisted the new name and the cascaded       *)
(* generation then fails, at the gate or because cmake exits non-zero,     *)
(* the name is still in the dependency document when the command ends.     *)
(***************************************************************************)
C8_NoRollback ==
    (PullOneSucceeded /\ pc = "done" /\ (GateBlocked \/ CMakeFailed)) =>
        InstalledName \in Range(registry)

C8_Witness ==
    /\ PullOneSucceeded
    /\ pc = "done"
    /\ CMakeFailed
    /\ InstalledName \in Range(registry)
    /\ files["source"].exists
    /\ InstalledName \in LinkedIn(files["source"].content)

(***************************************************************************)
(* C9.  A project-scoped command started while the project name is empty   *)
(* runs no external tool, writes no generated file and leaves the          *)
(* dependency document alone.                                              *)
(* Fails: pull without an argument runs git before any check of the name.  *)
(***************************************************************************)
C9_EmptyNameNoSideEffects ==
    [][ ( /\ pc = "idle"
          /\ project.name = ""
          /\ cmd'.name \in {"generate", "build", "go", "clean", "pull",
                            "remove", "switch"} )
        => ( /\ ext' = <<>>
             /\ opened' = <<>>
             /\ files' = files
             /\ registry' = registry )
      ]_vars

(***************************************************************************)
(* C10.  config <text> with a text other than Debug and Release leaves     *)
(* the default configuration as it was.                                    *)
(* Fails: the parsed value is stored before IsValid is asked.              *)
(***************************************************************************)
C10_InvalidConfigurationIgnored ==
    [][ ( /\ pc = "idle"
          /\ cmd'.name = "config"
          /\ cmd'.args[1] \notin {"Debug", "Release"} )
        => configuration' = configuration
      ]_vars

(***************************************************************************)
(* C11.  HandleGenerateCommand entered in a directory without .magnet      *)
(* returns at its first check: it logs where to run the command and        *)
(* nothing else, reports no dependency as missing, opens no generated      *)
(* file and runs no cmake.                                                 *)
(***************************************************************************)
NotRootMessage ==
    <<"In order to generate, run this command at the root of your project, where .magnet can be found.">>

C11_GenerateOutsideRoot ==
    (~rootLevel /\ GenerationEntered) =>
        /\ pc = "done"
        /\ log[Len(log)] = NotRootMessage
        /\ log[Len(log) - 1] = <<"Generating project files...">>
        /\ Reported = {}
        /\ ~GateBlocked
        /\ opened = <<>>
        /\ ~CMakeRan

C11_Witness ==
    /\ ~rootLevel
    /\ cmd.name = "generate"
    /\ pc = "done"
    /\ Logged(NotRootMessage)
    /\ registry # <<>>

(***************************************************************************)
(* C12.  When WriteDependencyFile fails inside pull <url> or remove, the   *)
(* command stops there: it logs neither "Installed new dependency" nor     *)
(* "Removed dependency" and does not enter HandleGenerateCommand.          *)
(***************************************************************************)
WriteFailed == Logged(<<"Failed to update dependencies.yaml file.">>)

MutationReported ==
    \E i \in 1..Len(log) :
        log[i][1] \in {"Installed new dependency: ", "Removed dependency: "}

C12_WriteFailureFailsCommand ==
    (cmd.name \in {"pull", "remove"} /\ WriteFailed) =>
        /\ ~MutationReported
        /\ ~GenerationEntered
        /\ pc = "done"

(***************************************************************************)
(* C13.  After Add_IfElse(condition, ifTrue, ifFalse) the stream holds, in *)
(* this order and with nothing else: the if-open line, the pieces of       *)
(* every call of ifTrue in the order the lambda makes them, the else       *)
(* line, the pieces of every call of ifFalse in order, and the endif       *)
(* line; so each lambda has run exactly once, whatever its length.         *)
(***************************************************************************)
\* the pieces of the calls block[1..k]
EmittedUpTo(block, k) == Concat(SubSeq(block, 1, k))

C13_IfElseSerialization ==
    emitter.called = "Add_IfElse" =>
        LET s == emitter.stream
            X == emitter.ifTrue
            Y == emitter.ifFalse
            lenX == Len(EmittedUpTo(X, Len(X)))
            lenY == Len(EmittedUpTo(Y, Len(Y)))
            else == 4 + lenX
        IN  /\ Len(s) = 4 + lenX + 2 + lenY + 2
            /\ SubSeq(s, 1, 4) = <<"if(", "NOT MSVC", ")", "\n">>
            /\ \A k \in 1..Len(X) :
                  SubSeq(s, 4 + Len(EmittedUpTo(X, k - 1)) + 1,
                            4 + Len(EmittedUpTo(X, k))) = X[k]
            /\ SubSeq(s, else + 1, else + 2) = <<"else()", "\n">>
            /\ \A k \in 1..Len(Y) :
                  SubSeq(s, else + 2 + Len(EmittedUpTo(Y, k - 1)) + 1,
                            else + 2 + Len(EmittedUpTo(Y, k))) = Y[k]
            /\ SubSeq(s, Len(s) - 1, Len(s)) = <<"endif()", "\n">>

C13_Witness ==
    /\ emitter.called = "Add_IfElse"
    /\ Len(emitter.ifTrue) = 2
    /\ emitter.ifTrue[1] # emitter.ifTrue[2]
    /\ Len(emitter.ifFalse) = 1
    /\ emitter.ifFalse[1] # emitter.ifTrue[1]
    /\ emitter.ifFalse[1] # emitter.ifTrue[2]

(***************************************************************************)
(* C14.  A Source/CMakeLists.txt holds exactly one target declaration:     *)
(* add_executable iff the project type is Executable, else add_library     *)
(* followed by the library kind.  After the target name (and the kind) it  *)
(* lists one file name per entry of the Source walk that has extension     *)
(* .cpp, .h or .hpp, in the order of the walk, and then closes.            *)
(***************************************************************************)
\* positions in the walk of the entries that are source files
SourceEntries ==
    {i \in 1..Len(sourceTree) : sourceTree[i].ext \in {".cpp", ".h", ".hpp"}}

\* the position in the walk of the k-th source file
SourceEntry(k) ==
    CHOOSE i \in SourceEntries :
        Cardinality({j \in SourceEntries : j <= i}) = k

TargetDeclarations(content) ==
    {i \in 1..Len(content) : content[i] \in {"add_executable(", "add_library("}}

C14_OneTargetDeclaration ==
    files["source"].exists =>
        LET c == files["source"].content
            n == Cardinality(SourceEntries)
        IN  /\ Cardinality(TargetDeclarations(c)) = 1
            /\ \A i \in TargetDeclarations(c) :
                LET isExecutable == project.type = "Executable"
                    \* the piece before the first " file" pair
                    at == IF isExecutable THEN i + 1 ELSE i + 3
                IN  /\ (c[i] = "add_executable(") <=> isExecutable
                    /\ c[i + 1] = project.name
                    /\ ~isExecutable =>
                          /\ c[i + 2] = " "
                          /\ c[i + 3] = (IF project.type = "StaticLibrary"
                                         THEN "STATIC" ELSE "SHARED")
                    /\ \A k \in 1..n :
                          /\ c[at + 2 * k - 1] = " "
                          /\ c[at + 2 * k] = sourceTree[SourceEntry(k)].stem
                                             \o sourceTree[SourceEntry(k)].ext
                    /\ c[at + 2 * n + 1] = ")"

C14_Witness ==
    /\ "source" \in Range(opened)
    /\ files["source"].exists
    /\ project.type = "StaticLibrary"
    /\ Cardinality(SourceEntries) > 2

(***************************************************************************)
(* C15.  The three generated files are a function of the descriptor, the   *)
(* registry and the directories and Source walk on disk: once cmake has    *)
(* been run, the files are those a generation over no files writes from    *)
(* these inputs, whatever command led there and whatever the files held    *)
(* before; and a generation running over files that an earlier generation  *)
(* wrote from the same inputs leaves every file as it was.                 *)
(***************************************************************************)
FilesOfInputs == Generation(NoFiles, project, sourceTree, dirs, registry)

C15_GenerationIdempotent ==
    /\ [](CMakeRan => files = FilesOfInputs)
    /\ [][(pc \in {"root", "source", "deps"} /\ files = FilesOfInputs)
            => files' = files]_vars

C15_Witness ==
    /\ cmd.name = "generate"
    /\ CMakeRan
    /\ opened = <<"root", "source", "deps">>
    /\ registry = <<"a", "b">>
    /\ files = FilesOfInputs

(***************************************************************************)
(* C16.  No step of HandleGenerateCommand, called as a command or at the   *)
(* end of pull, remove or switch, and whether it stops at a check, at the  *)
(* gate, at cmake or succeeds, changes the descriptor, the default         *)
(* configuration, the dependency document or any directory or source       *)
(* file: all it writes are the three CMakeLists.txt.                       *)
(***************************************************************************)
GenerateStep ==
    \/ pc = "idle" /\ cmd'.name = "generate"
    \/ pc \in {"generate", "root", "source", "deps", "cmake"}

C16_GenerateNeverPersists ==
    [][GenerateStep =>
        /\ project' = project
        /\ configuration' = configuration
        /\ registry' = registry
        /\ rootLevel' = rootLevel
        /\ dirs' = dirs
        /\ sourceTree' = sourceTree
        /\ \A i \in 1..Len(opened') : opened'[i] \in {"root", "source", "deps"}]_vars

C16_Witness ==
    /\ cmd.name = "generate"
    /\ CMakeFailed
    /\ opened = <<"root", "source">>
    /\ registry # <<>>

(***************************************************************************)
(* C17.  pull <url>, remove and switch keep the registry and the           *)
(* Dependencies directory in agreement: started where every declared name  *)
(* has its directory, they end where every declared name has its           *)
(* directory, whichever of their external commands fail.                   *)
(***************************************************************************)
MutatingStep ==
    /\ pc = "idle"
    /\ cmd'.name \in {"pull", "remove", "switch"}

C17_AgreementKept ==
    [][(MutatingStep /\ AbsentDeclared = {}) => AbsentDeclared' = {}]_vars

\* remove stopped at its third command: git rm has deleted the directory,
\* the document still declares the name
RemoveStoppedAtThird ==
    /\ cmd.name = "remove"
    /\ Len(ext) = 3
    /\ ext[1].ok /\ ext[2].ok /\ ~ext[3].ok

(***************************************************************************)
(* C17, amended.  Started where every declared name has its directory,     *)
(* pull <url>, remove and switch end where every declared name has its     *)
(* directory, except a remove whose third command fails: git rm has then   *)
(* deleted the directory and the name removed is still declared, and it    *)
(* is the only declared name without a directory.                          *)
(***************************************************************************)
C17_AgreementKeptButThirdStep ==
    [][(MutatingStep /\ AbsentDeclared = {}) =>
          IF RemoveStoppedAtThird' /\ cmd'.args[1] \in Range(registry)
          THEN AbsentDeclared' = {cmd'.args[1]}
          ELSE AbsentDeclared' = {}]_vars

C17_Witness ==
    /\ RemoveStoppedAtThird
    /\ AbsentDeclared = {cmd.args[1]}
    /\ Len(registry) = 2

(***************************************************************************)
(* C18.  pull (with or without an argument), remove and switch started in  *)
(* a directory without .magnet run no external command and leave the      *)
(* dependency document as it is.                                           *)
(***************************************************************************)
C18_MutatingOutsideRoot ==
    [][(MutatingStep /\ ~rootLevel) =>
          /\ ext' = <<>>
          /\ registry' = registry
          /\ dirs' = dirs]_vars

(***************************************************************************)
(* C19.  A generation past the gate opens root, Source and Dependencies    *)
(* CMakeLists.txt in this order, each one written and closed before the    *)
(* next is opened; cmake is run only when all three are written, and the   *)
(* success line is logged only when cmake exited with zero.                *)
(***************************************************************************)
AllThree == <<"root", "source", "deps">>

C19_ThreeFilesThenCMake ==
    /\ pc = "source" => opened = <<"root">>
    /\ pc = "deps" => opened = <<"root", "source">>
    /\ pc = "cmake" => opened = AllThree
    /\ (pc = "done" /\ opened # <<>>) => opened = AllThree
    /\ CMakeRan => opened = AllThree
    /\ GenerationSucceeded => (CMakeRan /\ ~CMakeFailed)

(***************************************************************************)
(* C20.  The Source/CMakeLists.txt a generation writes has a               *)
(* target_link_libraries directive iff the registry is not empty (and      *)
(* then only one).  The directive names the project target and then the    *)
(* registry, entry by entry in document order, and every declared          *)
(* dependency is named in it exactly once.                                 *)
(***************************************************************************)
LinkDirectives(content) ==
    {i \in 1..Len(content) : content[i] = "target_link_libraries("}

C20_LinkLibrariesDirective ==
    "source" \in Range(opened) =>
        LET c == files["source"].content
            n == Len(registry)
        IN  /\ (LinkDirectives(c) # {}) <=> (registry # <<>>)
            /\ Cardinality(LinkDirectives(c)) <= 1
            /\ \A i \in LinkDirectives(c) :
                /\ c[i + 1] = project.name
                /\ \A k \in 1..n :
                      /\ c[i + 2 * k] = " "
                      /\ c[i + 2 * k + 1] = registry[k]
                /\ c[i + 2 * n + 2] = ")"
                /\ \A d \in Range(registry) :
                      Cardinality({k \in 1..n : c[i + 2 * k + 1] = d}) = 1

(***************************************************************************)
(* C21.  The Dependencies/CMakeLists.txt a generation writes has, after    *)
(* its preamble, nothing when the registry is empty.  Otherwise it has one *)
(* add_subdirectory line per registry entry in document order, a blank     *)
(* line, one target_include_directories opening, one quoted path line per  *)
(* registry entry in document order, with /include after the name iff      *)
(* <project>/Dependencies/<name>/include exists, and one closing line,     *)
(* which ends the file.                                                    *)
(***************************************************************************)
HasInclude(d) ==
    <<project.name, "Dependencies", d, "include">> \in dirs

Occurrences(content, piece) ==
    {i \in 1..Len(content) : content[i] = piece}

\* pieces of the path lines of registry[1..k]
PathLinesLength(k) ==
    5 * k + Cardinality({j \in 1..k : HasInclude(registry[j])})

RepositoryUrlOf(argument) ==
    IF argument = "u/a" THEN "https://github.com/u/a" ELSE argument

C22_InstallNotSelfBlocking ==
    PullOneSucceeded =>
        /\ ext[1].command = "git submodule add " \o RepositoryUrlOf(cmd.args[1])
                            \o " " \o project.name \o "/Dependencies/"
                            \o registry[Len(registry)]
        /\ Exists(dirs, <<project.name, "Dependencies", registry[Len(registry)]>>)
        /\ AbsentDeclared = {} =>
              /\ Reported = {}
              /\ ~GateBlocked
              /\ pc \in {"generate", "root"} \/ "root" \in Range(opened)

C22_Witness ==
    /\ PullOneSucceeded
    /\ cmd.args[1] = "https://h.o/b.git"
    /\ registry = <<"c", "a", "b">>
    /\ AbsentDeclared = {}
    /\ GenerationSucceeded

(***************************************************************************)
(* C23.  The dependency document changes only in the handler step of       *)
(* pull <url> and of remove.  pull without argument, pull --list, pull     *)
(* --help, switch, generate, build, go, clean and config, and every step   *)
(* of the generation any command cascades into, leave it as it is,         *)
(* whether their external commands succeed or fail.                        *)
(***************************************************************************)
RegistryWritingStep ==
    /\ pc = "idle"
    /\ PullOneStarted(cmd') \/ cmd'.name = "remove"

C23_OnlyPullOneAndRemoveWrite ==
    [][~RegistryWritingStep => registry' = registry]_vars

C23_Witness ==
    /\ cmd.name = "switch"
    /\ Len(ext) = 3
    /\ ext[1].ok /\ ext[2].ok
    /\ registry = <<"b", "a">>
    /\ cmd.args[1] = "b"
    /\ pc = "done"

====
